---- MODULE Spec2Model ----
(***************************************************************************)
(* Meeting Room Bot (src/meeting_bot.py): the booking sheet, the per-user  *)
(* conversation data and the handlers that read and write them.            *)
(*                                                                         *)
(* Representation.                                                         *)
(*   - A clock text "H:MM" is the pair <<h, m>>; time_to_minutes computes  *)
(*     h*60+m from it as the code does.  A time range text is a record     *)
(*     [shape, s, e]: shape says whether the text has the form             *)
(*     "H:MM-H:MM", s and e are its two clock texts.  In a stored text     *)
(*     s is the part before the "-" (the whole text when there is none).   *)
(*   - A date string "DD/MM/YYYY" as produced by strftime is the number of *)
(*     its day; an instant is day * MinutesPerDay + minute of the day.     *)
(*   - The sheet is the sequence of its data rows; data row k of the       *)
(*     sequence is spreadsheet row k+1 (row 1 is the header).              *)
(*   - Updates are handled one at a time (the application is built without *)
(*     concurrent updates); the scheduled clean-up job runs on the same    *)
(*     event loop and can run wherever a handler awaits.  pc holds the     *)
(*     handler that is suspended at such an await after its mutation.      *)
(*   - The job queue calls its callback with one argument, the callback    *)
(*     context: in auto_cleanup run as the job, update is that context     *)
(*     (an object without a message attribute) and context is None.        *)
(*   - The rows of the UserStats sheet are not kept; logged holds what the *)
(*     append of log_user_action did in the last step.                     *)
(***************************************************************************)
EXTENDS Integers, Sequences, FiniteSets, TLC

VARIABLES sheet,        \* the booking sheet: sequence of rows
          now,          \* the current instant (minutes)
          bookConv,     \* book_conv state per (chat, user)
          cancelConv,   \* cancel_conv state per (chat, user)
          announceConv, \* announce_conv state per (chat, user)
          uploadConv,   \* upload_conv state per (chat, user)
          user_data,    \* context.user_data per user
          pc,           \* the handler suspended after its mutation, or idle
          reply,        \* the reply_text of the last handler
          sent,         \* the group messages sent by the last step
          logged        \* the append to UserStats of the last step

vars == <<sheet, now, bookConv, cancelConv, announceConv, uploadConv,
          user_data, pc, reply, sent, logged>>

-----------------------------------------------------------------------------
(* Configuration *)

ADMIN_ID == 171208804

GraceMinutes == 30

MinutesPerDay == 24 * 60

\* Conversation states
DATE == "DATE"
TIME == "TIME"
CANCEL_SELECT == "CANCEL_SELECT"
ANNOUNCE_MESSAGE == "ANNOUNCE_MESSAGE"
UPLOAD_DOC == "UPLOAD_DOC"
END == "END"

-----------------------------------------------------------------------------
(* Bounds of the model *)

\* The sheet holds at most MaxRows bookings.
MaxRows == 2

\* At most MaxOpen conversations are open in a chat at a time.
MaxOpen == 1

\* Two users: the administrator and one other.
Users == {ADMIN_ID, ADMIN_ID + 1}

Chats == {"chat1"}

\* Two chats, for conversations of one user in both and of two users side
\* by side.
TwoChats == {"chat1", "chat2"}

\* Clock texts users type: three valid ones, an hour and a minute out of range.
ClockTexts == {<<9, 0>>, <<9, 30>>, <<10, 0>>, <<24, 0>>, <<9, 60>>}

TimeInputs ==
    {[shape |-> FALSE, s |-> <<0, 0>>, e |-> <<0, 0>>]}
    \cup {[shape |-> TRUE, s |-> a, e |-> b] : a \in ClockTexts, b \in ClockTexts}

Days == {0, 1}

\* Date texts: shape = the regular expression matches, parse = dateparser
\* returns a date, day = that date.
DateInputs ==
    {[shape |-> FALSE, parse |-> FALSE, day |-> 0],
     [shape |-> TRUE, parse |-> FALSE, day |-> 0]}
    \cup {[shape |-> TRUE, parse |-> TRUE, day |-> d] : d \in Days}

\* The instants the clock passes through: day 0 at 09:00, 09:59, 10:00, 10:01 and
\* day 1 at 09:00.
ClockPoints == {540, 599, 600, 601, MinutesPerDay + 540}

\* What a user can type as the number of a booking: numeric = int() accepts
\* the text, n = its value.
Choices ==
    {[numeric |-> FALSE, n |-> 0]}
    \cup {[numeric |-> TRUE, n |-> k] : k \in 0 .. MaxRows + 1}

\* user_data.get("date") before any date was stored; in a row, a Date cell
\* that strptime does not accept
NoDate == 0 - 1

NoTime == [shape |-> FALSE, s |-> <<0, 0>>, e |-> <<0, 0>>]

\* The spreadsheet the bot opens may hold up to MaxStored rows.
MaxStored == 3

\* Rows a spreadsheet may hold when the bot opens it: bookings of two days,
\* two of them with the same date and start, a row whose end is no time of
\* the day, a row whose Time cell is no time at all and a row without a date.
StoredRows ==
    {[Date |-> 0, Time |-> [shape |-> TRUE, s |-> <<9, 30>>, e |-> <<10, 0>>],
      Name |-> <<"name", ADMIN_ID>>, TelegramID |-> ADMIN_ID],
     [Date |-> 0, Time |-> [shape |-> TRUE, s |-> <<9, 0>>, e |-> <<9, 30>>],
      Name |-> <<"name", ADMIN_ID + 1>>, TelegramID |-> ADMIN_ID + 1],
     [Date |-> 1, Time |-> [shape |-> TRUE, s |-> <<9, 0>>, e |-> <<9, 30>>],
      Name |-> <<"name", ADMIN_ID>>, TelegramID |-> ADMIN_ID],
     [Date |-> 1, Time |-> [shape |-> TRUE, s |-> <<9, 0>>, e |-> <<24, 0>>],
      Name |-> <<"name", ADMIN_ID + 1>>, TelegramID |-> ADMIN_ID + 1],
     [Date |-> 0, Time |-> [shape |-> FALSE, s |-> <<24, 0>>, e |-> <<24, 0>>],
      Name |-> <<"name", ADMIN_ID>>, TelegramID |-> ADMIN_ID],
     [Date |-> NoDate, Time |-> [shape |-> TRUE, s |-> <<9, 0>>, e |-> <<9, 30>>],
      Name |-> <<"name", ADMIN_ID + 1>>, TelegramID |-> ADMIN_ID + 1]}

\* Clock texts for the overlap test: five half hours, enough for ranges that
\* are disjoint, touch, intersect in part, contain one another or are equal.
RangeClocks == {<<9, 0>>, <<9, 30>>, <<10, 0>>, <<10, 30>>, <<11, 0>>}

RangeInputs == {[shape |-> TRUE, s |-> a, e |-> b] : a \in RangeClocks, b \in RangeClocks}

StoredSheets == UNION {[1 .. n -> StoredRows] : n \in 0 .. MaxStored}

-----------------------------------------------------------------------------
(* Helpers *)

FirstName(u) == <<"name", u>>

\* time_to_minutes dropping the hours.
time_to_minutes_of_hour(t) == t[2]

time_to_minutes(t) == t[1] * 60 + t[2]

\* strptime accepting every clock text.
strptime_any(t) == TRUE

\* datetime.strptime(t, "%H:%M") succeeds
strptime_ok(t) == t[1] \in 0 .. 23 /\ t[2] \in 0 .. 59

\* is_overlapping comparing the new start with the existing start.
is_overlapping_start(existing_start, existing_end, new_start, new_end) ==
    ~(new_end <= existing_start \/ new_start >= existing_start)

is_overlapping(existing_start, existing_end, new_start, new_end) ==
    ~(new_end <= existing_start \/ new_start >= existing_end)

Row(date_str, time_str, name, telegram_id) ==
    [Date |-> date_str, Time |-> time_str, Name |-> name, TelegramID |-> telegram_id]

\* sheet.delete_rows(i): spreadsheet row i is data row i - 1; deleting a row
\* below the data removes an empty row of the grid.
delete_rows(sh, i) ==
    IF i - 1 \in 1 .. Len(sh)
    THEN SubSeq(sh, 1, i - 2) \o SubSeq(sh, i, Len(sh))
    ELSE sh

\* The sort key of a row: <<parsable, day, minute of the start>>.
sort_key(row) ==
    IF row.Date \in Nat /\ strptime_ok(row.Time.s)
    THEN <<0, row.Date, time_to_minutes(row.Time.s)>>
    ELSE <<1, 0, 0>>

\* The order of the keys by the date alone.
KeyLessByDate(a, b) ==
    \/ a[1] < b[1]
    \/ a[1] = b[1] /\ a[2] < b[2]

KeyLess(a, b) ==
    \/ a[1] < b[1]
    \/ a[1] = b[1] /\ a[2] < b[2]
    \/ a[1] = b[1] /\ a[2] = b[2] /\ a[3] < b[3]

\* Insert row into the sorted sequence s after every row whose key is not
\* greater (sorted() is stable).
RECURSIVE InsertSorted(_, _)
InsertSorted(s, row) ==
    IF s = <<>> THEN <<row>>
    ELSE IF KeyLess(sort_key(row), sort_key(Head(s)))
         THEN <<row>> \o s
         ELSE <<Head(s)>> \o InsertSorted(Tail(s), row)

RECURSIVE sort_records_old_to_new(_)
sort_records_old_to_new(records) ==
    IF records = <<>> THEN <<>>
    ELSE InsertSorted(sort_records_old_to_new(SubSeq(records, 1, Len(records) - 1)),
                      records[Len(records)])

\* The lines "Date | Time | Name" of a schedule.
Line(row) == <<row.Date, row.Time, row.Name>>

Lines(records) == [k \in 1 .. Len(records) |-> Line(records[k])]

-----------------------------------------------------------------------------
(* Replies, group messages, suspended handlers *)

Reply(text) == [text |-> text, date |-> NoDate, time |-> NoTime, list |-> <<>>]

ReplyBooking(text, date_str, time_str) ==
    [text |-> text, date |-> date_str, time |-> time_str, list |-> <<>>]

ReplyList(text, list) == [text |-> text, date |-> NoDate, time |-> NoTime, list |-> list]

\* A message to GROUP_CHAT_ID: its heading, the actor and booking it names,
\* the removed bookings and the schedule it lists.  The texts of a new
\* booking, a cancellation and a clean-up have a schedule part (the lines, or
\* the notice that no booking is left); the others have none.
GroupMessage(kind, actor, date_str, time_str, removed, schedule) ==
    [kind |-> kind, actor |-> actor, date |-> date_str, time |-> time_str,
     removed |-> removed, schedule |-> schedule,
     has_schedule |-> kind \in {"new_booking", "cancel", "cleanup"}]

Idle == [op |-> "idle", chat |-> "", user |-> 0, date |-> NoDate, time |-> NoTime]

Suspended(op, c, u, date_str, time_str) ==
    [op |-> op, chat |-> c, user |-> u, date |-> date_str, time |-> time_str]

Keys == DOMAIN bookConv

Today == now \div MinutesPerDay

\* The conversations of a handler that are open in chat c.
Open(conv, c) == {k \in DOMAIN conv : k[1] = c /\ conv[k] # END}

OpenCount(c) ==
    Cardinality(Open(bookConv, c)) + Cardinality(Open(cancelConv, c))
    + Cardinality(Open(announceConv, c)) + Cardinality(Open(uploadConv, c))

\* context.user_data holds what a conversation step left for the next one.
\* An entry is kept here while it can still be read: "date" while a book
\* conversation of the user awaits the time, "user_bookings" while a cancel
\* conversation of the user awaits the number; get_date and cancel assign
\* them again before any other read.
LiveDate(u, conv, date_str) ==
    IF \E k \in DOMAIN conv : k[2] = u /\ conv[k] = TIME THEN date_str ELSE NoDate

LiveBookings(u, conv, user_bookings) ==
    IF \E k \in DOMAIN conv : k[2] = u /\ conv[k] = CANCEL_SELECT
    THEN user_bookings ELSE <<>>

-----------------------------------------------------------------------------
(* log_user_action *)

\* log_user_action without its try: a failed append raises.
log_user_action_unguarded(append_ok) == IF append_ok THEN "returned" ELSE "raised"

\* How log_user_action ends when the append to UserStats succeeds or fails:
\* the whole body is inside try / except Exception.
log_user_action(append_ok) == "returned"

\* What the append did.
LogOutcome(append_ok) == IF append_ok THEN "appended" ELSE "failed"

\* An exception leaves a handler: the application drops the update, nothing is
\* replied and no conversation changes its state.
Aborted ==
    /\ reply' = Reply("")
    /\ sent' = <<>>
    /\ UNCHANGED <<sheet, now, bookConv, cancelConv, announceConv, uploadConv,
                   user_data, pc>>

-----------------------------------------------------------------------------
(* save_booking *)

\* The loop with the dates that other conversations await the time for taken
\* as booked: two users hold the date.
HasOverlapOrReserved(records, date_str, new_start, new_end) ==
    \/ Cardinality({u \in Users : user_data[u].date = date_str}) > 1
    \/ \E k \in 1 .. Len(records) :
          /\ records[k].Date = date_str
          /\ records[k].Time.shape
          /\ is_overlapping(time_to_minutes(records[k].Time.s),
                            time_to_minutes(records[k].Time.e),
                            new_start, new_end)

\* The loop over the records: some row of the same date whose time parses
\* overlaps the new range.
HasOverlap(records, date_str, new_start, new_end) ==
    \E k \in 1 .. Len(records) :
        /\ records[k].Date = date_str
        /\ records[k].Time.shape
        /\ is_overlapping(time_to_minutes(records[k].Time.s),
                          time_to_minutes(records[k].Time.e),
                          new_start, new_end)

save_booking_result(records, date_str, time_str) ==
    IF ~time_str.shape THEN "invalid"
    ELSE IF HasOverlap(records, date_str,
                       time_to_minutes(time_str.s), time_to_minutes(time_str.e))
         THEN "overlap"
         ELSE "success"

\* save_booking writing the new booking over the last row.
save_booking_overwrite(records, date_str, time_str, name, telegram_id) ==
    IF save_booking_result(records, date_str, time_str) = "success"
    THEN Append(SubSeq(records, 1, Len(records) - 1),
                Row(date_str, time_str, name, telegram_id))
    ELSE records

\* The sheet after save_booking.
save_booking(records, date_str, time_str, name, telegram_id) ==
    IF save_booking_result(records, date_str, time_str) = "success"
    THEN Append(records, Row(date_str, time_str, name, telegram_id))
    ELSE records

-----------------------------------------------------------------------------
(* The state after construction *)

InitRest(chats) ==
    /\ now = 540
    /\ bookConv = [k \in chats \X Users |-> END]
    /\ cancelConv = [k \in chats \X Users |-> END]
    /\ announceConv = [k \in chats \X Users |-> END]
    /\ uploadConv = [k \in chats \X Users |-> END]
    /\ user_data = [u \in Users |-> [date |-> NoDate, user_bookings |-> <<>>]]
    /\ pc = Idle
    /\ reply = Reply("")
    /\ sent = <<>>
    /\ logged = "none"

InitWith(chats) ==
    /\ sheet = <<>>
    /\ InitRest(chats)

Init == InitWith(Chats)

-----------------------------------------------------------------------------
(* /book *)

\* book after log_user_action
book_body(c, u) ==
    /\ bookConv' = [bookConv EXCEPT ![<<c, u>>] = DATE]
    /\ reply' = Reply("enter_date")
    /\ sent' = <<>>
    /\ UNCHANGED <<sheet, now, cancelConv, announceConv, uploadConv, user_data, pc>>

book_logged(c, u, append_ok) ==
    /\ pc = Idle
    /\ bookConv[<<c, u>>] = END
    /\ OpenCount(c) < MaxOpen
    /\ logged' = LogOutcome(append_ok)
    /\ IF log_user_action(append_ok) = "raised" THEN Aborted ELSE book_body(c, u)

book(c, u) == \E append_ok \in BOOLEAN : book_logged(c, u, append_ok)

get_date(c, u, date_input) ==
    /\ pc = Idle
    /\ bookConv[<<c, u>>] = DATE
    /\ sent' = <<>>
    /\ logged' = "none"
    /\ UNCHANGED <<sheet, now, cancelConv, announceConv, uploadConv, pc>>
    /\ IF ~date_input.shape
       THEN /\ reply' = Reply("date_format")
            /\ UNCHANGED <<bookConv, user_data>>
       ELSE IF ~date_input.parse
       THEN /\ reply' = Reply("invalid_date")
            /\ UNCHANGED <<bookConv, user_data>>
       ELSE IF date_input.day < Today
       THEN /\ reply' = Reply("date_in_past")
            /\ UNCHANGED <<bookConv, user_data>>
       ELSE /\ user_data' = [user_data EXCEPT ![u].date = date_input.day]
            /\ bookConv' = [bookConv EXCEPT ![<<c, u>>] = TIME]
            /\ reply' = Reply("enter_time")

get_time(c, u, time_input) ==
    /\ pc = Idle
    /\ bookConv[<<c, u>>] = TIME
    /\ sent' = <<>>
    /\ logged' = "none"
    /\ UNCHANGED <<now, cancelConv, announceConv, uploadConv, user_data, bookConv>>
    /\ LET date_str == user_data[u].date
           result == save_booking_result(sheet, date_str, time_input)
       IN  IF ~time_input.shape
           THEN /\ reply' = Reply("time_format")
                /\ UNCHANGED <<sheet, pc>>
           ELSE IF ~(strptime_ok(time_input.s) /\ strptime_ok(time_input.e))
           THEN /\ reply' = Reply("time_values")
                /\ UNCHANGED <<sheet, pc>>
           ELSE IF time_to_minutes(time_input.e) <= time_to_minutes(time_input.s)
           THEN /\ reply' = Reply("end_must_be_later")
                /\ UNCHANGED <<sheet, pc>>
           ELSE IF result = "overlap"
           THEN /\ reply' = Reply("overlap")
                /\ UNCHANGED <<sheet, pc>>
           ELSE IF result = "invalid"
           THEN /\ reply' = Reply("could_not_save")
                /\ UNCHANGED <<sheet, pc>>
           ELSE /\ Len(sheet) < MaxRows
                /\ sheet' = save_booking(sheet, date_str, time_input, FirstName(u), u)
                /\ reply' = ReplyBooking("booking_confirmed", date_str, time_input)
                /\ pc' = Suspended("get_time", c, u, date_str, time_input)

\* get_time after its reply: announce to the group, end the conversation.
get_time_announce ==
    /\ pc.op = "get_time"
    /\ sent' = <<GroupMessage("new_booking", FirstName(pc.user), pc.date, pc.time,
                              <<>>, Lines(sort_records_old_to_new(sheet)))>>
    /\ bookConv' = [bookConv EXCEPT ![<<pc.chat, pc.user>>] = END]
    /\ user_data' = [user_data EXCEPT ![pc.user].date = LiveDate(pc.user, bookConv', @)]
    /\ pc' = Idle
    /\ logged' = "none"
    /\ UNCHANGED <<sheet, now, cancelConv, announceConv, uploadConv, reply>>

-----------------------------------------------------------------------------
(* /schedule *)

\* show_schedule after log_user_action
show_schedule_body(u) ==
    /\ reply' = IF sheet = <<>>
                THEN Reply("no_bookings_yet")
                ELSE ReplyList("current_schedule", Lines(sort_records_old_to_new(sheet)))
    /\ sent' = <<>>
    /\ UNCHANGED <<sheet, now, bookConv, cancelConv, announceConv, uploadConv,
                   user_data, pc>>

show_schedule_logged(u, append_ok) ==
    /\ pc = Idle
    /\ logged' = LogOutcome(append_ok)
    /\ IF log_user_action(append_ok) = "raised" THEN Aborted ELSE show_schedule_body(u)

show_schedule(u) == \E append_ok \in BOOLEAN : show_schedule_logged(u, append_ok)

-----------------------------------------------------------------------------
(* /cancel *)

\* The (spreadsheet row, booking) pairs of the rows whose TelegramID is the
\* user's, in sheet order.
RECURSIVE OwnedBookings(_, _, _)
OwnedBookings(records, u, i) ==
    IF i > Len(records) THEN <<>>
    ELSE IF records[i].TelegramID = u
         THEN <<[row_index |-> i + 1, booking |-> records[i]]>>
              \o OwnedBookings(records, u, i + 1)
         ELSE OwnedBookings(records, u, i + 1)

\* user_bookings without the test of the TelegramID.
all_bookings_of(records, u) ==
    [i \in 1 .. Len(records) |-> [row_index |-> i + 1, booking |-> records[i]]]

user_bookings_of(records, u) == OwnedBookings(records, u, 1)

\* The numbered list "k. Date | Time" of the reply.
Listing(user_bookings) ==
    [k \in 1 .. Len(user_bookings) |->
        <<user_bookings[k].booking.Date, user_bookings[k].booking.Time>>]

\* choice <= len(user_bookings), without the lower bound
choice_at_most(choice, user_bookings) == choice <= Len(user_bookings)

\* 1 <= choice <= len(user_bookings)
choice_in_range(choice, user_bookings) == 1 <= choice /\ choice <= Len(user_bookings)

\* user_bookings[i] of a Python list: a negative i counts from the end.
list_item(list, i) == IF i >= 0 THEN list[i + 1] ELSE list[Len(list) + i + 1]

\* cancel after log_user_action
cancel_body(c, u) ==
    /\ sent' = <<>>
    /\ UNCHANGED <<sheet, now, bookConv, announceConv, uploadConv, pc>>
    /\ LET user_bookings == user_bookings_of(sheet, u)
       IN  IF user_bookings = <<>>
           THEN /\ reply' = Reply("no_bookings_to_cancel")
                /\ UNCHANGED <<cancelConv, user_data>>
           ELSE /\ reply' = ReplyList("your_bookings", Listing(user_bookings))
                /\ user_data' = [user_data EXCEPT ![u].user_bookings = user_bookings]
                /\ cancelConv' = [cancelConv EXCEPT ![<<c, u>>] = CANCEL_SELECT]

cancel_logged(c, u, append_ok) ==
    /\ pc = Idle
    /\ cancelConv[<<c, u>>] = END
    /\ OpenCount(c) < MaxOpen
    /\ logged' = LogOutcome(append_ok)
    /\ IF log_user_action(append_ok) = "raised" THEN Aborted ELSE cancel_body(c, u)

cancel(c, u) == \E append_ok \in BOOLEAN : cancel_logged(c, u, append_ok)

\* A text message reaches cancel_conv only when book_conv, registered before
\* it, has no conversation for the same chat and user.
delete_booking_by_number(c, u, user_input) ==
    /\ pc = Idle
    /\ bookConv[<<c, u>>] = END
    /\ cancelConv[<<c, u>>] = CANCEL_SELECT
    /\ sent' = <<>>
    /\ logged' = "none"
    /\ UNCHANGED <<now, bookConv, cancelConv, announceConv, uploadConv, user_data>>
    /\ LET user_bookings == user_data[u].user_bookings
       IN  IF ~user_input.numeric
           THEN /\ reply' = Reply("enter_valid_number")
                /\ UNCHANGED <<sheet, pc>>
           ELSE IF ~choice_in_range(user_input.n, user_bookings)
           THEN /\ reply' = Reply("invalid_choice")
                /\ UNCHANGED <<sheet, pc>>
           ELSE LET row_index == list_item(user_bookings, user_input.n - 1).row_index
                    booking == list_item(user_bookings, user_input.n - 1).booking
                IN  /\ sheet' = delete_rows(sheet, row_index)
                    /\ reply' = ReplyBooking("canceled", booking.Date, booking.Time)
                    /\ pc' = Suspended("delete_booking_by_number", c, u,
                                       booking.Date, booking.Time)

\* delete_booking_by_number after its reply: read the sheet again, announce.
delete_booking_announce ==
    /\ pc.op = "delete_booking_by_number"
    /\ sent' = <<GroupMessage("cancel", FirstName(pc.user), pc.date, pc.time,
                              <<>>, Lines(sort_records_old_to_new(sheet)))>>
    /\ cancelConv' = [cancelConv EXCEPT ![<<pc.chat, pc.user>>] = END]
    /\ user_data' = [user_data EXCEPT
                        ![pc.user].user_bookings = LiveBookings(pc.user, cancelConv', @)]
    /\ pc' = Idle
    /\ logged' = "none"
    /\ UNCHANGED <<sheet, now, bookConv, announceConv, uploadConv, reply>>

-----------------------------------------------------------------------------
(* /end *)

\* The instants of a booking's start and end; parsing fails on a malformed row.
RowParses(row) ==
    row.Date \in Nat /\ row.Time.shape /\ strptime_ok(row.Time.s) /\ strptime_ok(row.Time.e)

start_dt(row) == row.Date * MinutesPerDay + time_to_minutes(row.Time.s)

end_dt(row) == row.Date * MinutesPerDay + time_to_minutes(row.Time.e)

\* The window without its last minute: now < end_dt + 30 minutes.
InWindowExclusive(row, t) ==
    RowParses(row) /\ start_dt(row) <= t /\ t < end_dt(row) + GraceMinutes

InWindow(row, t) ==
    RowParses(row) /\ start_dt(row) <= t /\ t <= end_dt(row) + GraceMinutes

\* The loop of end_meeting: the position in user_bookings of the first booking
\* within its window, 0 when there is none.
\* The loop without its break: the last booking within its window.
ActivePositionLast(user_bookings, t) ==
    IF \E k \in 1 .. Len(user_bookings) : InWindow(user_bookings[k].booking, t)
    THEN CHOOSE k \in 1 .. Len(user_bookings) :
            /\ InWindow(user_bookings[k].booking, t)
            /\ \A j \in k + 1 .. Len(user_bookings) : ~InWindow(user_bookings[j].booking, t)
    ELSE 0

ActivePosition(user_bookings, t) ==
    IF \E k \in 1 .. Len(user_bookings) : InWindow(user_bookings[k].booking, t)
    THEN CHOOSE k \in 1 .. Len(user_bookings) :
            /\ InWindow(user_bookings[k].booking, t)
            /\ \A j \in 1 .. k - 1 : ~InWindow(user_bookings[j].booking, t)
    ELSE 0

\* end_meeting after log_user_action
end_meeting_body(u) ==
    /\ UNCHANGED <<now, bookConv, cancelConv, announceConv, uploadConv, user_data, pc>>
    /\ LET user_bookings == user_bookings_of(sheet, u)
           k == ActivePosition(user_bookings, now)
       IN  IF user_bookings = <<>>
           THEN /\ reply' = Reply("no_active_meetings")
                /\ sent' = <<>>
                /\ UNCHANGED sheet
           ELSE IF k = 0
           THEN /\ reply' = Reply("not_meeting_time")
                /\ sent' = <<>>
                /\ UNCHANGED sheet
           ELSE /\ sheet' = delete_rows(sheet, user_bookings[k].row_index)
                /\ sent' = <<GroupMessage("meeting_ended", FirstName(u),
                                          user_bookings[k].booking.Date,
                                          user_bookings[k].booking.Time, <<>>, <<>>)>>
                /\ reply' = Reply("meeting_ended")

end_meeting_logged(u, append_ok) ==
    /\ pc = Idle
    /\ logged' = LogOutcome(append_ok)
    /\ IF log_user_action(append_ok) = "raised" THEN Aborted ELSE end_meeting_body(u)

end_meeting(u) == \E append_ok \in BOOLEAN : end_meeting_logged(u, append_ok)

-----------------------------------------------------------------------------
(* auto_cleanup: /clean and the scheduled job *)

\* A row is expired when it parses and its end is before now; a row that does
\* not parse is neither removed nor kept.
ParsesForCleanup(row) == row.Date \in Nat /\ row.Time.shape /\ strptime_ok(row.Time.e)

\* meeting_end <= now
meeting_end_reached(row, t) == end_dt(row) <= t

\* The comparison of the dates alone: the booking is of an earlier day.
meeting_day_passed(row, t) == row.Date < t \div MinutesPerDay

\* meeting_end < now
meeting_end_passed(row, t) == end_dt(row) < t

Expired(row, t) == ParsesForCleanup(row) /\ meeting_end_passed(row, t)

Kept(row, t) == ParsesForCleanup(row) /\ ~meeting_end_passed(row, t)

RECURSIVE Filter(_, _, _)
Filter(records, t, keep) ==
    IF records = <<>> THEN <<>>
    ELSE IF (keep /\ Kept(Head(records), t)) \/ (~keep /\ Expired(Head(records), t))
         THEN <<Head(records)>> \o Filter(Tail(records), t, keep)
         ELSE Filter(Tail(records), t, keep)

removed_of(records, t) == Filter(records, t, FALSE)

updated_records_of(records, t) == Filter(records, t, TRUE)

\* sheet.clear() and sheet.update("A1", new_data) are two calls to the store
\* with no await between them; outcome says which of them raises, if any.
SweepOutcomes == {"ok", "clear_fails", "update_fails"}

\* The sheet when the handler stops after sheet.clear().
clear_only(records, updated_records, outcome) ==
    IF outcome = "clear_fails" THEN records ELSE <<>>

\* The sheet after lines 505-509.
clear_and_update(records, updated_records, outcome) ==
    IF outcome = "ok" THEN updated_records
    ELSE IF outcome = "clear_fails" THEN records
    ELSE <<>>

\* manual: called for /clean, with the update and the context.  Otherwise it
\* is called by the job queue: update is the callback context and context is
\* None, so context.bot raises once the sheet is rewritten, the except clause
\* is entered, and there update.message raises; the test of update.message in
\* the else branch raises as well.  The job sends and replies nothing.
auto_cleanup_with(manual, outcome) ==
    /\ UNCHANGED <<now, bookConv, cancelConv, announceConv, uploadConv, user_data, pc>>
    /\ logged' = "none"
    /\ LET removed == removed_of(sheet, now)
           updated_records == updated_records_of(sheet, now)
       IN  IF removed # <<>>
           THEN /\ sheet' = clear_and_update(sheet, updated_records, outcome)
                /\ IF ~manual
                   THEN /\ sent' = <<>>
                        /\ reply' = reply
                   ELSE IF outcome = "ok"
                   THEN /\ sent' = <<GroupMessage("cleanup", FirstName(0), NoDate, NoTime,
                                                  Lines(removed),
                                                  Lines(sort_records_old_to_new(updated_records)))>>
                        /\ reply' = Reply("cleanup_completed")
                   ELSE /\ sent' = <<>>
                        /\ reply' = Reply("cleanup_failed")
           ELSE /\ UNCHANGED sheet
                /\ sent' = <<>>
                /\ reply' = IF manual THEN Reply("no_expired_bookings") ELSE reply

\* auto_cleanup when the calls to the store succeed.
auto_cleanup(manual) == auto_cleanup_with(manual, "ok")

\* /clean: the handler is registered without a check of the caller.
clean(u) ==
    /\ pc = Idle
    /\ auto_cleanup(TRUE)

\* The job of the job queue; it also runs while a handler is suspended.
auto_cleanup_job == auto_cleanup(FALSE)

\* /clean and the job when sheet.clear() or sheet.update() raises.
clean_fails(u, outcome) ==
    /\ pc = Idle
    /\ outcome # "ok"
    /\ removed_of(sheet, now) # <<>>
    /\ auto_cleanup_with(TRUE, outcome)

auto_cleanup_job_fails(outcome) ==
    /\ outcome # "ok"
    /\ removed_of(sheet, now) # <<>>
    /\ auto_cleanup_with(FALSE, outcome)

-----------------------------------------------------------------------------
(* Administrator commands *)

stats(u) ==
    /\ pc = Idle
    /\ logged' = "none"
    /\ sent' = <<>>
    /\ reply' = IF u # ADMIN_ID THEN Reply("not_authorized") ELSE Reply("activity_summary")
    /\ UNCHANGED <<sheet, now, bookConv, cancelConv, announceConv, uploadConv,
                   user_data, pc>>

announce(c, u) ==
    /\ pc = Idle
    /\ logged' = "none"
    /\ announceConv[<<c, u>>] = END
    /\ OpenCount(c) < MaxOpen
    /\ sent' = <<>>
    /\ UNCHANGED <<sheet, now, bookConv, cancelConv, uploadConv, user_data, pc>>
    /\ IF u # ADMIN_ID
       THEN /\ reply' = Reply("not_authorized")
            /\ UNCHANGED announceConv
       ELSE /\ reply' = Reply("type_announcement")
            /\ announceConv' = [announceConv EXCEPT ![<<c, u>>] = ANNOUNCE_MESSAGE]

\* A text message reaches announce_conv only when book_conv and cancel_conv
\* have no conversation for the same chat and user.
send_announcement(c, u, empty) ==
    /\ pc = Idle
    /\ logged' = "none"
    /\ bookConv[<<c, u>>] = END
    /\ cancelConv[<<c, u>>] = END
    /\ announceConv[<<c, u>>] = ANNOUNCE_MESSAGE
    /\ UNCHANGED <<sheet, now, bookConv, cancelConv, uploadConv, user_data, pc>>
    /\ IF u # ADMIN_ID
       THEN /\ reply' = Reply("not_authorized")
            /\ sent' = <<>>
            /\ announceConv' = [announceConv EXCEPT ![<<c, u>>] = END]
       ELSE IF empty
       THEN /\ reply' = Reply("empty_message")
            /\ sent' = <<>>
            /\ UNCHANGED announceConv
       ELSE /\ sent' = <<GroupMessage("announcement", FirstName(u), NoDate, NoTime,
                                      <<>>, <<>>)>>
            /\ reply' = Reply("announcement_sent")
            /\ announceConv' = [announceConv EXCEPT ![<<c, u>>] = END]

upload_doc_start(c, u) ==
    /\ pc = Idle
    /\ logged' = "none"
    /\ uploadConv[<<c, u>>] = END
    /\ OpenCount(c) < MaxOpen
    /\ sent' = <<>>
    /\ UNCHANGED <<sheet, now, bookConv, cancelConv, announceConv, user_data, pc>>
    /\ IF u # ADMIN_ID
       THEN /\ reply' = Reply("not_authorized")
            /\ UNCHANGED uploadConv
       ELSE /\ reply' = Reply("send_document")
            /\ uploadConv' = [uploadConv EXCEPT ![<<c, u>>] = UPLOAD_DOC]

\* A document message; too_large: its size exceeds 10 MB.
receive_document(c, u, too_large) ==
    /\ pc = Idle
    /\ logged' = "none"
    /\ uploadConv[<<c, u>>] = UPLOAD_DOC
    /\ sent' = <<>>
    /\ UNCHANGED <<sheet, now, bookConv, cancelConv, announceConv, user_data, pc>>
    /\ IF too_large
       THEN /\ reply' = Reply("file_too_large")
            /\ UNCHANGED uploadConv
       ELSE /\ reply' = Reply("file_saved")
            /\ uploadConv' = [uploadConv EXCEPT ![<<c, u>>] = END]

-----------------------------------------------------------------------------
(* Time passes *)

Tick ==
    /\ \E t \in ClockPoints : t > now /\ now' = t
    /\ UNCHANGED <<sheet, bookConv, cancelConv, announceConv, uploadConv,
                   user_data, pc, reply, sent, logged>>

-----------------------------------------------------------------------------

Next ==
    \/ \E k \in Keys : book(k[1], k[2])
    \/ \E k \in Keys, d \in DateInputs : get_date(k[1], k[2], d)
    \/ \E k \in Keys, t \in TimeInputs : get_time(k[1], k[2], t)
    \/ get_time_announce
    \/ \E u \in Users : show_schedule(u)
    \/ \E k \in Keys : cancel(k[1], k[2])
    \/ \E k \in Keys, n \in Choices : delete_booking_by_number(k[1], k[2], n)
    \/ delete_booking_announce
    \/ \E u \in Users : end_meeting(u)
    \/ \E u \in Users : clean(u)
    \/ auto_cleanup_job
    \/ \E u \in Users : stats(u)
    \/ \E k \in Keys : announce(k[1], k[2])
    \/ \E k \in Keys, b \in BOOLEAN : send_announcement(k[1], k[2], b)
    \/ \E k \in Keys : upload_doc_start(k[1], k[2])
    \/ \E k \in Keys, b \in BOOLEAN : receive_document(k[1], k[2], b)
    \/ Tick

Spec == Init /\ [][Next]_vars

\* The schedule view of a spreadsheet that holds rows when the bot opens it.
InitStored ==
    /\ sheet \in StoredSheets
    /\ InitRest(Chats)

NextView == \E u \in Users : show_schedule(u)

SpecView == InitStored /\ [][NextView]_vars

\* The sweeps of a stored sheet, by /clean and by the job, as time passes.
NextSweep ==
    \/ \E u \in Users : clean(u)
    \/ auto_cleanup_job
    \/ Tick

SpecSweep == InitStored /\ [][NextSweep]_vars

\* The time step of a booking against a sheet that holds one booking: the
\* administrator has booked a range, the other user has entered a date.
InitOverlap ==
    /\ \E d \in Days, t \in {x \in RangeInputs : time_to_minutes(x.e) > time_to_minutes(x.s)} :
          sheet = <<Row(d, t, FirstName(ADMIN_ID), ADMIN_ID)>>
    /\ now = 540
    /\ bookConv = [k \in Chats \X Users |-> IF k[2] = ADMIN_ID THEN END ELSE TIME]
    /\ cancelConv = [k \in Chats \X Users |-> END]
    /\ announceConv = [k \in Chats \X Users |-> END]
    /\ uploadConv = [k \in Chats \X Users |-> END]
    /\ \E d \in Days :
          user_data = [u \in Users |->
                          [date |-> IF u = ADMIN_ID THEN NoDate ELSE d,
                           user_bookings |-> <<>>]]
    /\ pc = Idle
    /\ reply = Reply("enter_time")
    /\ sent = <<>>
    /\ logged = "none"

NextOverlap ==
    \/ \E k \in Keys, t \in RangeInputs : get_time(k[1], k[2], t)
    \/ get_time_announce

SpecOverlap == InitOverlap /\ [][NextOverlap]_vars

\* Bookings, cancellations, ended meetings and the sweep of the job, for the
\* conversations keys.
NextOf(keys) ==
    \/ \E k \in keys : book(k[1], k[2])
    \/ \E k \in keys, d \in DateInputs : get_date(k[1], k[2], d)
    \/ \E k \in keys, t \in TimeInputs : get_time(k[1], k[2], t)
    \/ get_time_announce
    \/ \E k \in keys : cancel(k[1], k[2])
    \/ \E k \in keys, n \in Choices : delete_booking_by_number(k[1], k[2], n)
    \/ delete_booking_announce
    \/ \E k \in keys : end_meeting(k[2])
    \/ auto_cleanup_job
    \/ Tick

\* Two users side by side, each in a chat of their own.  The administrator
\* opens conversations and never gives the input that completes one; the other
\* user books, cancels and ends meetings.
SideBySide == {<<"chat1", ADMIN_ID>>, <<"chat2", ADMIN_ID + 1>>}

NextStalled ==
    \/ \E k \in SideBySide : book(k[1], k[2])
    \/ \E k \in SideBySide, d \in DateInputs : get_date(k[1], k[2], d)
    \/ \E t \in TimeInputs : get_time("chat2", ADMIN_ID + 1, t)
    \/ get_time_announce
    \/ \E k \in SideBySide : cancel(k[1], k[2])
    \/ \E n \in Choices : delete_booking_by_number("chat2", ADMIN_ID + 1, n)
    \/ delete_booking_announce
    \/ end_meeting(ADMIN_ID + 1)
    \/ auto_cleanup_job
    \/ Tick

SpecStalled == InitWith(TwoChats) /\ [][NextStalled]_vars

\* One user in two chats.
InTwoChats == {<<"chat1", ADMIN_ID + 1>>, <<"chat2", ADMIN_ID + 1>>}

SpecInTwoChats == InitWith(TwoChats) /\ [][NextOf(InTwoChats)]_vars

\* One chat, with the job that the job queue runs again after every interval
\* (run_repeating): a sweep that has bookings to remove is not put off for ever.
SpecRepeating ==
    /\ InitWith(Chats)
    /\ [][NextOf(Chats \X Users)]_vars
    /\ WF_vars(auto_cleanup_job)

\* The same with sweeps whose calls to the store fail.
NextFail ==
    \/ Next
    \/ \E u \in Users, o \in SweepOutcomes : clean_fails(u, o)
    \/ \E o \in SweepOutcomes : auto_cleanup_job_fails(o)

SpecFail == Init /\ [][NextFail]_vars

-----------------------------------------------------------------------------
(* Properties *)

StartOf(row) == time_to_minutes(row.Time.s)

EndOf(row) == time_to_minutes(row.Time.e)

\* The instant a booking ends.
EndInstant(row) == row.Date * MinutesPerDay + EndOf(row)

StartInstant(row) == row.Date * MinutesPerDay + StartOf(row)

\* Two rows of the same date whose half-open ranges intersect.
Overlap(r1, r2) ==
    r1.Date = r2.Date /\ ~(EndOf(r2) <= StartOf(r1) \/ StartOf(r2) >= EndOf(r1))

\* A row of the same date whose end is the other's start.
Touch(r1, r2) == r1.Date = r2.Date /\ EndOf(r1) = StartOf(r2)

\* The sequence s without its element i.
Without(s, i) == SubSeq(s, 1, i - 1) \o SubSeq(s, i + 1, Len(s))

\* C1: in every reachable state no two rows of the sheet with the same date
\* have overlapping time ranges.
NoDoubleBooking ==
    \A i \in 1 .. Len(sheet) : \A j \in 1 .. Len(sheet) :
        i # j => ~Overlap(sheet[i], sheet[j])

\* Two bookings of one date are stored, the second starting where the first ends.
NoDoubleBookingWitness ==
    /\ Len(sheet) = 2
    /\ Touch(sheet[1], sheet[2])
    /\ sheet[1].TelegramID # sheet[2].TelegramID

\* The time text passes get_time's own checks, so that save_booking is called.
ReachesBook(t) ==
    /\ t.shape
    /\ strptime_ok(t.s) /\ strptime_ok(t.e)
    /\ time_to_minutes(t.e) > time_to_minutes(t.s)

\* Some row of the sheet has the date and a range that intersects [s, e).
Clash(records, date_str, t) ==
    \E i \in 1 .. Len(records) :
        /\ records[i].Date = date_str
        /\ ~(time_to_minutes(t.e) <= StartOf(records[i])
             \/ time_to_minutes(t.s) >= EndOf(records[i]))

\* C2: a booking is answered 'overlap' exactly when a row of the same date
\* intersects the new range, and then the sheet is unchanged; a range that
\* only touches existing ones is accepted.
BookOverlapRule ==
    [][\A k \in {x \in Keys : bookConv[x] = TIME} :
       \A t \in {x \in TimeInputs : ReachesBook(x)} :
         get_time(k[1], k[2], t) =>
            LET d == user_data[k[2]].date
            IN  /\ (reply'.text = "overlap") <=> Clash(sheet, d, t)
                /\ Clash(sheet, d, t) => sheet' = sheet
                /\ ~Clash(sheet, d, t) =>
                      /\ reply'.text = "booking_confirmed"
                      /\ Len(sheet') = Len(sheet) + 1]_vars

\* An overlapping request was refused while the sheet holds two touching
\* bookings of one date.
BookOverlapWitness ==
    /\ reply.text = "overlap"
    /\ Len(sheet) = 2
    /\ Touch(sheet[1], sheet[2])

\* C3: a successful booking appends exactly one row with the given date,
\* time range, name and id and leaves the earlier rows as they were; any
\* other outcome of the time step, and a save_booking that does not return
\* 'success', leaves the sheet unchanged.
BookFrame ==
    [][\A k \in {x \in Keys : bookConv[x] = TIME} :
       \A t \in TimeInputs :
         get_time(k[1], k[2], t) =>
            LET d == user_data[k[2]].date
            IN  /\ IF reply'.text = "booking_confirmed"
                   THEN sheet' = sheet \o <<[Date |-> d, Time |-> t,
                                             Name |-> FirstName(k[2]),
                                             TelegramID |-> k[2]]>>
                   ELSE sheet' = sheet
                /\ save_booking_result(sheet, d, t) # "success" =>
                      save_booking(sheet, d, t, FirstName(k[2]), k[2]) = sheet]_vars

\* A booking was confirmed and appended after a row that was already there.
BookFrameWitness ==
    /\ reply.text = "booking_confirmed"
    /\ pc.op = "get_time"
    /\ Len(sheet) = 2
    /\ sheet[2].Date = reply.date /\ sheet[2].Time = reply.time
    /\ sheet[2].TelegramID = pc.user

\* The rows of s whose end is not before t, in order.
RECURSIVE NotEnded(_, _)
NotEnded(s, t) ==
    IF s = <<>> THEN <<>>
    ELSE IF EndInstant(Head(s)) >= t
         THEN <<Head(s)>> \o NotEnded(Tail(s), t)
         ELSE NotEnded(Tail(s), t)

\* C4: after a sweep (by /clean or by the job) no row whose end is before now
\* is left, and the rows whose end is at or after now are all there, unchanged.
ExpiryCorrect ==
    [][(auto_cleanup(TRUE) \/ auto_cleanup(FALSE)) =>
          /\ \A i \in 1 .. Len(sheet') : EndInstant(sheet'[i]) >= now
          /\ sheet' = NotEnded(sheet, now)]_vars

\* A sweep removed a booking and kept one that ends exactly now.
ExpiryWitness ==
    /\ Len(sent) = 1
    /\ sent[1].kind = "cleanup"
    /\ Len(sent[1].removed) = 1
    /\ Len(sheet) = 1
    /\ EndInstant(sheet[1]) = now

\* C5: a successful cancellation removes exactly one row, and that row is the
\* booking the user selected, the one whose date and time the reply reports.
CancelRemovesSelection ==
    [][\A k \in {x \in Keys : cancelConv[x] = CANCEL_SELECT} :
       \A n \in Choices :
         (delete_booking_by_number(k[1], k[2], n) /\ reply'.text = "canceled") =>
            \E i \in 1 .. Len(sheet) :
                /\ sheet' = Without(sheet, i)
                /\ sheet[i].TelegramID = k[2]
                /\ sheet[i].Date = reply'.date
                /\ sheet[i].Time = reply'.time]_vars

\* The positions of the rows of the sheet that user u owns.
OwnedRows(u) == {i \in 1 .. Len(sheet) : sheet[i].TelegramID = u}

\* C6: /cancel lists the caller's bookings, all of them and no others.
CancelListsOwn ==
    [][\A k \in {x \in Keys : cancelConv[x] = END} :
         cancel(k[1], k[2]) =>
            LET u == k[2]
                list == user_data'[u].user_bookings
            IN  IF OwnedRows(u) = {}
                THEN reply'.text = "no_bookings_to_cancel" /\ cancelConv'[k] = END
                ELSE /\ reply'.text = "your_bookings"
                     /\ cancelConv'[k] = CANCEL_SELECT
                     /\ Len(list) = Cardinality(OwnedRows(u))
                     /\ {list[j].row_index - 1 : j \in 1 .. Len(list)} = OwnedRows(u)
                     /\ \A j \in 1 .. Len(list) :
                           /\ list[j].booking = sheet[list[j].row_index - 1]
                           /\ list[j].booking.TelegramID = u
                           /\ reply'.list[j] = <<list[j].booking.Date, list[j].booking.Time>>
                     /\ Len(reply'.list) = Len(list)]_vars

\* A user was shown a list of one booking while the sheet also holds a
\* booking of the other user.
CancelListsOwnWitness ==
    /\ reply.text = "your_bookings"
    /\ Len(reply.list) = 1
    /\ Len(sheet) = 2
    /\ sheet[1].TelegramID # sheet[2].TelegramID
    /\ \E k \in Keys : cancelConv[k] = CANCEL_SELECT

\* C7: a choice that is no number or lies outside 1..len(list) leaves the
\* sheet unchanged, sends nothing to the group and keeps the conversation in
\* CANCEL_SELECT.
BadChoiceRetry ==
    [][\A k \in {x \in Keys : cancelConv[x] = CANCEL_SELECT} :
       \A n \in Choices :
         (/\ delete_booking_by_number(k[1], k[2], n)
          /\ (~n.numeric \/ n.n < 1 \/ n.n > Len(user_data[k[2]].user_bookings))) =>
            /\ sheet' = sheet
            /\ sent' = <<>>
            /\ pc' = Idle
            /\ cancelConv'[k] = CANCEL_SELECT]_vars

\* An out-of-range choice was refused; the conversation still awaits a number.
BadChoiceWitness ==
    /\ reply.text = "invalid_choice"
    /\ sheet # <<>>
    /\ \E k \in Keys :
          cancelConv[k] = CANCEL_SELECT /\ user_data[k[2]].user_bookings # <<>>

\* The rows of u that are running or ended at most 30 minutes ago.
Eligible(u) ==
    {i \in OwnedRows(u) :
        StartInstant(sheet[i]) <= now /\ now <= EndInstant(sheet[i]) + 30}

\* C8: /end finds a meeting exactly when the caller owns a booking with
\* start <= now <= end + 30 minutes.
EndMeetingWindow ==
    [][\A u \in Users :
         end_meeting(u) => ((reply'.text = "meeting_ended") <=> Eligible(u) # {})]_vars

\* A meeting that ended exactly 30 minutes ago was ended.
EndMeetingWindowWitness ==
    /\ reply.text = "meeting_ended"
    /\ Len(sent) = 1
    /\ sent[1].kind = "meeting_ended"
    /\ sent[1].date * MinutesPerDay + time_to_minutes(sent[1].time.e) + 30 = now

\* The least element of a non-empty set of numbers.
Least(S) == CHOOSE i \in S : \A j \in S : i <= j

\* C9: /end deletes exactly the caller's first eligible booking in sheet order
\* and leaves the other rows as they were; without an eligible booking it
\* reports that there is none and leaves the sheet unchanged.
EndMeetingFrame ==
    [][\A u \in Users :
         end_meeting(u) =>
            IF Eligible(u) = {}
            THEN /\ sheet' = sheet
                 /\ sent' = <<>>
                 /\ reply'.text \in {"no_active_meetings", "not_meeting_time"}
            ELSE /\ sheet' = Without(sheet, Least(Eligible(u)))
                 /\ Len(sent') = 1
                 /\ sent'[1].date = sheet[Least(Eligible(u))].Date
                 /\ sent'[1].time = sheet[Least(Eligible(u))].Time]_vars

\* A meeting was ended while the caller's other booking, still in the sheet,
\* was eligible too.
EndMeetingFrameWitness ==
    /\ reply.text = "meeting_ended"
    /\ Len(sent) = 1
    /\ sent[1].kind = "meeting_ended"
    /\ Len(sheet) = 1
    /\ sheet[1].Name = sent[1].actor
    /\ StartInstant(sheet[1]) <= now /\ now <= EndInstant(sheet[1]) + 30

\* C10: /announce, /stats, /clean and /uploaddoc from a caller who is not the
\* administrator are answered 'not authorized' and do nothing else.
AdminOnlyDenied ==
    [][\A k \in {x \in Keys : x[2] # ADMIN_ID} :
         (\/ announce(k[1], k[2])
          \/ stats(k[2])
          \/ clean(k[2])
          \/ upload_doc_start(k[1], k[2])) =>
            /\ reply'.text = "not_authorized"
            /\ sheet' = sheet
            /\ sent' = <<>>]_vars

-----------------------------------------------------------------------------
(* Broadcasts *)

\* The schedule part of a broadcast for a table: its rows in the order of
\* date and start.
ScheduleOf(records) == Lines(sort_records_old_to_new(records))

\* One message that names the actor and lists the table records.
AnnouncesSchedule(messages, actor, records) ==
    /\ Len(messages) = 1
    /\ messages[1].actor = actor
    /\ messages[1].has_schedule
    /\ messages[1].schedule = ScheduleOf(records)

\* C11: every operation that changes the schedule (a booking, a cancellation,
\* an ended meeting, a sweep that removes a booking) sends exactly one message
\* to the group, with the actor, the action and the whole schedule after the
\* change in the order of date and start.
BroadcastOnMutation ==
    [][/\ get_time_announce =>
             AnnouncesSchedule(sent', FirstName(pc.user), sheet')
       /\ delete_booking_announce =>
             AnnouncesSchedule(sent', FirstName(pc.user), sheet')
       /\ \A u \in Users :
             (end_meeting(u) /\ sheet' # sheet) =>
                AnnouncesSchedule(sent', FirstName(u), sheet')
       /\ \A m \in BOOLEAN :
             (auto_cleanup(m) /\ sheet' # sheet) =>
                /\ Len(sent') = 1
                /\ sent'[1].has_schedule
                /\ sent'[1].schedule = ScheduleOf(sheet')]_vars

-----------------------------------------------------------------------------
(* The booking conversation *)

\* A clock text that names a time of the day, and its minute of the day.
ClockValid(t) == 0 <= t[1] /\ t[1] <= 23 /\ 0 <= t[2] /\ t[2] <= 59

Minutes(t) == t[1] * 60 + t[2]

\* A time text that is a range of two times of the day, the end after the start.
GoodRange(t) == t.shape /\ ClockValid(t.s) /\ ClockValid(t.e) /\ Minutes(t.e) > Minutes(t.s)

\* Some row of the date intersects the range.
Collides(records, date_str, t) ==
    \E i \in 1 .. Len(records) :
        /\ records[i].Date = date_str
        /\ Minutes(t.s) < Minutes(records[i].Time.e)
        /\ Minutes(records[i].Time.s) < Minutes(t.e)

\* C12: a malformed or past date leaves the conversation awaiting the date; a
\* malformed range, an end not after the start or an overlap leaves it
\* awaiting the time with the date retained; none of them changes the sheet,
\* and the conversation ends only after a confirmed booking.
BookingRetry ==
    [][/\ \A k \in {x \in Keys : bookConv[x] = DATE} :
          \A d \in DateInputs :
             (/\ get_date(k[1], k[2], d)
              /\ (~d.shape \/ ~d.parse \/ d.day * MinutesPerDay + MinutesPerDay <= now)) =>
                /\ bookConv'[k] = DATE
                /\ sheet' = sheet
                /\ user_data' = user_data
                /\ sent' = <<>>
       /\ \A k \in {x \in Keys : bookConv[x] = TIME} :
          \A t \in TimeInputs :
             (/\ get_time(k[1], k[2], t)
              /\ (~GoodRange(t) \/ Collides(sheet, user_data[k[2]].date, t))) =>
                /\ bookConv'[k] = TIME
                /\ sheet' = sheet
                /\ user_data'[k[2]].date = user_data[k[2]].date
                /\ pc' = Idle
                /\ sent' = <<>>
       /\ \A k \in Keys :
             (bookConv[k] # END /\ bookConv'[k] = END) =>
                /\ pc.op = "get_time" /\ pc.chat = k[1] /\ pc.user = k[2]
                /\ reply.text = "booking_confirmed"
                /\ \E i \in 1 .. Len(sent') : sent'[i].kind = "new_booking"]_vars

\* An end before the start was refused on the second day; the conversation
\* still awaits the time for the date entered before.
BookingRetryWitness ==
    /\ reply.text = "end_must_be_later"
    /\ sheet # <<>>
    /\ \E k \in Keys : bookConv[k] = TIME /\ user_data[k[2]].date = 1

\* C13: every row of the sheet has an end strictly after its start.
EndAfterStart ==
    \A i \in 1 .. Len(sheet) : Minutes(sheet[i].Time.e) > Minutes(sheet[i].Time.s)

\* The sheet is full and a range whose end is not after its start has just
\* been refused.
EndAfterStartWitness ==
    /\ Len(sheet) = MaxRows
    /\ reply.text = "end_must_be_later"
    /\ \E k \in Keys : bookConv[k] = TIME

-----------------------------------------------------------------------------
(* The sorted view *)

\* The permutations of 1 .. n.
Perms(n) == {f \in [1 .. n -> 1 .. n] : \A i \in 1 .. n : \E j \in 1 .. n : f[j] = i}

\* A line "Date | Time | Name" whose date and start are a date and a time of
\* the day.
LineParses(line) == line[1] >= 0 /\ ClockValid(line[2].s)

\* Line a is not after line b in the order of date and start.
NotAfter(a, b) ==
    \/ a[1] < b[1]
    \/ a[1] = b[1] /\ Minutes(a[2].s) <= Minutes(b[2].s)

\* C14: the schedule view is a permutation of the rows of the sheet, not
\* decreasing in date and start, with the rows whose date or start does not
\* parse after all the others; the sheet is not changed.
SortedView ==
    [][\A u \in Users :
         (show_schedule(u) /\ sheet # <<>>) =>
            LET view == reply'.list
                n == Len(sheet)
            IN  /\ sheet' = sheet
                /\ Len(view) = n
                /\ \E f \in Perms(n) :
                      \A i \in 1 .. n :
                         view[i] = <<sheet[f[i]].Date, sheet[f[i]].Time, sheet[f[i]].Name>>
                /\ \A i \in 1 .. n : \A j \in i + 1 .. n :
                      /\ LineParses(view[j]) => LineParses(view[i])
                      /\ (LineParses(view[i]) /\ LineParses(view[j])) =>
                            NotAfter(view[i], view[j])]_vars

\* The view of three rows stored latest first, a row without a date at the
\* top, was shown in another order with that row last.
SortedViewWitness ==
    /\ reply.text = "current_schedule"
    /\ Len(sheet) = 3
    /\ sheet[1].Date = NoDate
    /\ sheet[2].Date = 1 /\ sheet[3].Date = 0
    /\ reply.list[1][1] = 0 /\ reply.list[2][1] = 1 /\ reply.list[3][1] = NoDate

-----------------------------------------------------------------------------
(* The activity log *)

\* C15: a command whose append to the activity log fails does exactly what
\* the command does after logging: it is not aborted, its outcome is the
\* same, and its reply is the reply of the command.
LogFailureHarmless ==
    [][/\ \A k \in Keys :
             /\ book_logged(k[1], k[2], FALSE) => book_body(k[1], k[2])
             /\ cancel_logged(k[1], k[2], FALSE) => cancel_body(k[1], k[2])
       /\ \A u \in Users :
             /\ end_meeting_logged(u, FALSE) => end_meeting_body(u)
             /\ show_schedule_logged(u, FALSE) => show_schedule_body(u)]_vars

\* The append failed and /cancel listed the caller's booking all the same.
LogFailureWitness ==
    /\ logged = "failed"
    /\ reply.text = "your_bookings"
    /\ Len(reply.list) = 1
    /\ \E k \in Keys : cancelConv[k] = CANCEL_SELECT

-----------------------------------------------------------------------------
(* The overlap test *)

\* C16: for two ranges with the end after the start, the overlap test gives
\* the same result in both orders; the answer to a booking request is the
\* result of the test with the requested range taken as the existing one.
OverlapSymmetric ==
    [][\A k \in {x \in Keys : bookConv[x] = TIME} :
       \A t \in {x \in RangeInputs : GoodRange(x)} :
         get_time(k[1], k[2], t) =>
            /\ \A i \in 1 .. Len(sheet) :
                  is_overlapping(Minutes(sheet[i].Time.s), Minutes(sheet[i].Time.e),
                                 Minutes(t.s), Minutes(t.e))
                  = is_overlapping(Minutes(t.s), Minutes(t.e),
                                   Minutes(sheet[i].Time.s), Minutes(sheet[i].Time.e))
            /\ (reply'.text = "overlap") <=>
                  \E i \in 1 .. Len(sheet) :
                     /\ sheet[i].Date = user_data[k[2]].date
                     /\ is_overlapping(Minutes(t.s), Minutes(t.e),
                                       Minutes(sheet[i].Time.s),
                                       Minutes(sheet[i].Time.e))]_vars

\* A request was refused against the booking 09:30-10:30 of the same date,
\* which ranges before it, after it and around it intersect in part.
OverlapSymmetricWitness ==
    /\ reply.text = "overlap"
    /\ Len(sheet) = 1
    /\ sheet[1].Time.s = <<9, 30>> /\ sheet[1].Time.e = <<10, 30>>
    /\ \E k \in Keys : bookConv[k] = TIME /\ user_data[k[2]].date = sheet[1].Date

-----------------------------------------------------------------------------
(* Serialization *)

\* C17: no operation changes the sheet between the read an operation decides
\* on and that operation's write.  save_booking, end_meeting and auto_cleanup
\* read and write within one step; a cancellation writes with the rows read
\* by /cancel, so at its write the sheet must still be the sheet /cancel
\* read: the stored list is what reading the sheet gives now.
SerializedReadWrite ==
    [][\A k \in {x \in Keys : cancelConv[x] = CANCEL_SELECT} :
       \A n \in Choices :
         (delete_booking_by_number(k[1], k[2], n) /\ sheet' # sheet) =>
            user_data[k[2]].user_bookings = user_bookings_of(sheet, k[2])]_vars

-----------------------------------------------------------------------------
(* A sweep whose rewrite fails *)

\* C19: when sheet.clear() or sheet.update() raises, /clean answers that the
\* clean-up failed, and the sweep of the job sends that to the group.
RewriteFailureReported ==
    [][\A o \in SweepOutcomes \ {"ok"} :
          /\ \A u \in Users :
                clean_fails(u, o) =>
                   /\ reply'.text = "cleanup_failed"
                   /\ reply'.text # "no_expired_bookings"
          /\ auto_cleanup_job_fails(o) =>
                \E i \in 1 .. Len(sent') : sent'[i].kind = "cleanup_failed"]_vars

-----------------------------------------------------------------------------
(* The schedule a broadcast lists *)

\* C20: the schedule in the broadcast of a booking is the sheet as the booking
\* left it, so the booking just added is listed; the schedule in the
\* broadcast of a sweep is the sheet as the sweep left it.
BroadcastAfterOwnMutation ==
    [][/\ get_time_announce =>
             /\ Len(sent') = 1
             /\ \E i \in 1 .. Len(sent'[1].schedule) :
                   sent'[1].schedule[i] = <<pc.date, pc.time, FirstName(pc.user)>>
       /\ \A m \in BOOLEAN :
             (auto_cleanup(m) /\ sent' # <<>>) =>
                sent'[1].schedule = ScheduleOf(sheet')]_vars

-----------------------------------------------------------------------------
(* The sweep of the job *)

\* The rows of s whose end is before t, in order.
RECURSIVE Ended(_, _)
Ended(s, t) ==
    IF s = <<>> THEN <<>>
    ELSE IF EndInstant(Head(s)) < t
         THEN <<Head(s)>> \o Ended(Tail(s), t)
         ELSE Ended(Tail(s), t)

\* C21: a sweep run by the job that removes a booking sends one message to
\* the group that lists the removed bookings and the schedule that is left,
\* in the order of date and start.
JobSweepBroadcast ==
    [][(auto_cleanup_job /\ sheet' # sheet) =>
          /\ Len(sent') = 1
          /\ sent'[1].kind = "cleanup"
          /\ sent'[1].removed = Lines(Ended(sheet, now))
          /\ sent'[1].schedule = ScheduleOf(sheet')]_vars

-----------------------------------------------------------------------------
(* Conversations that await input *)

\* The conversation of key k was opened and awaits the input of a later step.
Awaiting(k) == bookConv[k] \in {DATE, TIME} \/ cancelConv[k] = CANCEL_SELECT

\* The steps that open a conversation or leave it waiting for input.
Stalls(k) ==
    \/ book(k[1], k[2])
    \/ \E d \in DateInputs : get_date(k[1], k[2], d)
    \/ cancel(k[1], k[2])

\* What the user of key j can do: end a meeting that is in its window, open a
\* booking or a cancellation, have a good range that collides with no row
\* booked, have a listed booking cancelled.
CanComplete(j) ==
    /\ ENABLED end_meeting(j[2])
    /\ Eligible(j[2]) # {} => ENABLED (end_meeting(j[2]) /\ Len(sheet') = Len(sheet) - 1)
    /\ (bookConv[j] = END /\ cancelConv[j] = END) =>
          /\ ENABLED book(j[1], j[2])
          /\ ENABLED cancel(j[1], j[2])
    /\ bookConv[j] = TIME =>
          \A t \in TimeInputs :
             (GoodRange(t) /\ ~Collides(sheet, user_data[j[2]].date, t)
                /\ Len(sheet) < MaxRows) =>
                ENABLED (get_time(j[1], j[2], t) /\ Len(sheet') = Len(sheet) + 1)
    /\ (bookConv[j] = END /\ cancelConv[j] = CANCEL_SELECT) =>
          ENABLED (/\ delete_booking_by_number(j[1], j[2], [numeric |-> TRUE, n |-> 1])
                   /\ pc'.op = "delete_booking_by_number")

\* C22: a conversation that awaits input holds no lock and reserves nothing:
\* the steps that open it or leave it waiting do not change the sheet, and
\* while it waits the job's sweep can run and the other user can end a
\* meeting, open a booking or a cancellation, book any free range and cancel.
StalledHoldsNothing ==
    /\ [][\A k \in SideBySide : Stalls(k) => sheet' = sheet]_vars
    /\ [](\A k \in SideBySide :
            Awaiting(k) =>
               /\ ENABLED auto_cleanup_job
               /\ pc = Idle => \A j \in SideBySide \ {k} : CanComplete(j))

\* The administrator's booking conversation awaits the time for a date, and
\* the other user's booking for that date has just been confirmed.
StalledHoldsNothingWitness ==
    /\ bookConv[<<"chat1", ADMIN_ID>>] = TIME
    /\ pc.op = "get_time"
    /\ pc.user = ADMIN_ID + 1
    /\ pc.date = user_data[ADMIN_ID].date
    /\ \E i \in 1 .. Len(sheet) :
          sheet[i].TelegramID = ADMIN_ID + 1 /\ sheet[i].Date = user_data[ADMIN_ID].date

-----------------------------------------------------------------------------
(* The repeating sweep *)

\* The rows that a booking conversation can write.
BookedRows ==
    {Row(d, t, FirstName(u), u) :
        d \in Days, t \in {x \in TimeInputs : GoodRange(x)}, u \in Users}

Holds(s, row) == \E i \in 1 .. Len(s) : s[i] = row

\* C23: with the job run again and again and the store not failing, a booking
\* whose end is before now does not stay in the sheet for ever.
ExpiredEventuallyRemoved ==
    \A row \in BookedRows :
        (Holds(sheet, row) /\ EndInstant(row) < now) ~> ~Holds(sheet, row)

\* The job's sweep has removed an ended booking that /cancel had listed: the
\* list is still the last reply, and the booking is not in the sheet.
ExpiredEventuallyRemovedWitness ==
    /\ reply.text = "your_bookings"
    /\ logged = "none"
    /\ pc = Idle
    /\ \E u \in Users :
          \E k \in 1 .. Len(user_data[u].user_bookings) :
             /\ EndInstant(user_data[u].user_bookings[k].booking) < now
             /\ ~Holds(sheet, user_data[u].user_bookings[k].booking)

-----------------------------------------------------------------------------
(* The rows a sweep leaves *)

\* The row names a date and an end of a day's clock, and that end is before t.
EndsBefore(row, t) ==
    /\ row.Date \in Nat
    /\ row.Time.shape
    /\ ClockValid(row.Time.e)
    /\ EndInstant(row) < t

\* C24: a sweep removes only rows whose end is before now; every other row,
\* a row whose date or range does not parse included, is in the sheet after
\* the sweep, also when the sweep rewrites the sheet.
SweepKeepsOthers ==
    [][\A m \in BOOLEAN :
          auto_cleanup(m) =>
             \A i \in 1 .. Len(sheet) :
                ~EndsBefore(sheet[i], now) => Holds(sheet', sheet[i])]_vars

-----------------------------------------------------------------------------
(* Ownership *)

\* The rows of s that user u does not own, in their order.
RECURSIVE RowsOfOthers(_, _)
RowsOfOthers(s, u) ==
    IF s = <<>> THEN <<>>
    ELSE IF Head(s).TelegramID # u
         THEN <<Head(s)>> \o RowsOfOthers(Tail(s), u)
         ELSE RowsOfOthers(Tail(s), u)

\* C25: the number step of a user's cancellation and a user's /end remove no
\* booking of another owner, whatever bookings, cancellations, ended meetings
\* and sweeps of others come between the steps.
RemovesOwnOnly ==
    [][/\ \A k \in Keys, n \in Choices :
             delete_booking_by_number(k[1], k[2], n) =>
                RowsOfOthers(sheet', k[2]) = RowsOfOthers(sheet, k[2])
       /\ \A u \in Users :
             end_meeting(u) => RowsOfOthers(sheet', u) = RowsOfOthers(sheet, u)]_vars

\* The same for /end alone.
EndRemovesOwnOnly ==
    [][\A u \in Users :
          end_meeting(u) => RowsOfOthers(sheet', u) = RowsOfOthers(sheet, u)]_vars

-----------------------------------------------------------------------------
(* The date of a booking conversation *)

\* Another booking conversation of the same user awaits the time.
OtherAwaitsTime(k) == \E j \in Keys : j # k /\ j[2] = k[2] /\ bookConv[j] = TIME

\* C26: the date step leaves the date it was given for the time step of its
\* conversation, no date step of the user's conversation in another chat
\* replaces the date that a conversation awaits the time for, and the time
\* step appends a booking of that date.
DateOfConversation ==
    [][\A k \in Keys :
          /\ \A d \in DateInputs :
                (get_date(k[1], k[2], d) /\ bookConv'[k] = TIME) =>
                   /\ user_data'[k[2]].date = d.day
                   /\ OtherAwaitsTime(k) =>
                         user_data'[k[2]].date = user_data[k[2]].date
          /\ \A t \in TimeInputs :
                (get_time(k[1], k[2], t) /\ sheet' # sheet) =>
                   sheet'[Len(sheet')].Date = user_data[k[2]].date]_vars

====
